---- MODULE Spec2Model ----
(***************************************************************************)
(* A model of ai_tool_poster.py: one run of main() reads the CSV table of  *)
(* tools, selects the first one, composes the post text, renders the card  *)
(* image and publishes both through two HTTP requests.                     *)
(*                                                                         *)
(* Strings are sequences of characters; a character is a one-element       *)
(* string token.  ASCII characters stand for themselves, the non-ASCII     *)
(* glyphs of the template are written by code point ("U+1F195").           *)
(***************************************************************************)
EXTENDS Integers, Sequences, FiniteSets, TLC

VARIABLES pc, csv, tools, tool, status, imageWritten, creds, upload_resp,
          media_id, resp, requests, stdout, exc, trace

vars == <<pc, csv, tools, tool, status, imageWritten, creds, upload_resp,
          media_id, resp, requests, stdout, exc, trace>>

(***************************************************************************)
(* Bounds of the model.                                                    *)
(***************************************************************************)
MaxDescLen == 6
MaxAvail == 5
MaxOver == 1
MaxRows == 2

(***************************************************************************)
(* Python values.                                                          *)
(***************************************************************************)
\* Python's None where a string is expected: a sentinel that is no string of
\* the model (no alphabet holds its character).
None == <<"<None>">>

\* str(None), what an f-string or str.format substitutes for None.
StrNone == <<"N", "o", "n", "e">>

Str(v) == IF v = None THEN StrNone ELSE v

\* dict.get(key, default): the default only when the key is absent.
Get(d, key, default) == IF key \in DOMAIN d THEN d[key] ELSE default

\* bool(v) of a value that is None or a string.
Truthy(v) == v # None /\ v # <<>>

(***************************************************************************)
(* str.strip(), str.split() and ' '.join().                                *)
(***************************************************************************)
IsSpace(c) == c = " "

RECURSIVE LStrip(_)
LStrip(s) == IF s # <<>> /\ IsSpace(Head(s)) THEN LStrip(Tail(s)) ELSE s

RECURSIVE RStrip(_)
RStrip(s) ==
    IF s # <<>> /\ IsSpace(s[Len(s)]) THEN RStrip(SubSeq(s, 1, Len(s) - 1)) ELSE s

Strip(s) == RStrip(LStrip(s))

\* Length of the leading run of non-whitespace characters of s.
RECURSIVE WordLen(_)
WordLen(s) == IF s = <<>> \/ IsSpace(Head(s)) THEN 0 ELSE 1 + WordLen(Tail(s))

\* s.split(): the maximal runs of non-whitespace characters, in order.
RECURSIVE SplitWords(_)
SplitWords(s) ==
    LET t == LStrip(s)
        n == WordLen(t)
    IN IF t = <<>> THEN <<>>
       ELSE <<SubSeq(t, 1, n)>> \o SplitWords(SubSeq(t, n + 1, Len(t)))

\* ' '.join(words)
RECURSIVE JoinSpace(_)
JoinSpace(ws) ==
    IF ws = <<>> THEN <<>>
    ELSE IF Len(ws) = 1 THEN ws[1]
    ELSE ws[1] \o <<" ">> \o JoinSpace(Tail(ws))

\* ''.join(chunks)
RECURSIVE Concat(_)
Concat(chs) == IF chs = <<>> THEN <<>> ELSE Head(chs) \o Concat(Tail(chs))

RECURSIVE SumLen(_)
SumLen(chs) == IF chs = <<>> THEN 0 ELSE Len(Head(chs)) + SumLen(Tail(chs))

(***************************************************************************)
(* textwrap.shorten(text, width, placeholder="…"): TextWrapper with        *)
(* max_lines = 1 and the defaults break_long_words, break_on_hyphens and   *)
(* drop_whitespace, applied to the whitespace-collapsed text.              *)
(***************************************************************************)
Placeholder == <<"U+2026">>

\* The character classes of TextWrapper.wordsep_re over the characters of the
\* model: letters ([^\d\W]), which are also its word characters (\w) and word
\* punctuation; "-" and the ellipsis are neither.
IsLetter(c) == c \notin {" ", "-", "U+2026"}

\* The character at index i of word w; outside the word is whitespace or the
\* end of the text.
At(w, i) == IF i >= 1 /\ i <= Len(w) THEN w[i] ELSE " "

\* Number of consecutive hyphens of w from index i on.
RECURSIVE HyphenRun(_, _)
HyphenRun(w, i) == IF At(w, i) = "-" THEN 1 + HyphenRun(w, i + 1) ELSE 0

\* (?=-{2,}\w) at index i.
DashAhead(w, i) == HyphenRun(w, i) >= 2 /\ IsLetter(At(w, i + HyphenRun(w, i)))

\* The hyphenated-word alternative: the hyphen at index p ends a chunk when
\* two letters, or letter-hyphen-letter, come before it and a letter, an
\* optional hyphen and a letter after it.
HyphenBreak(w, p) ==
    /\ At(w, p) = "-"
    /\ \/ IsLetter(At(w, p - 2)) /\ IsLetter(At(w, p - 1))
       \/ IsLetter(At(w, p - 3)) /\ At(w, p - 2) = "-" /\ IsLetter(At(w, p - 1))
    /\ IsLetter(At(w, p + 1))
    /\ \/ IsLetter(At(w, p + 2))
       \/ At(w, p + 2) = "-" /\ IsLetter(At(w, p + 3))

\* Index of the last character of the wordsep_re match that starts at index s
\* of word w: an em-dash between words, or the shortest run of characters up
\* to a hyphen break, the end of the word, or an em-dash.
MatchEnd(w, s) ==
    IF IsLetter(At(w, s - 1)) /\ DashAhead(w, s)
    THEN s + HyphenRun(w, s) - 1
    ELSE LET ends == {e \in s .. Len(w) :
                         \/ HyphenBreak(w, e + 1)
                         \/ e = Len(w)
                         \/ IsLetter(At(w, e)) /\ DashAhead(w, e + 1)}
             e == CHOOSE x \in ends : \A y \in ends : x <= y
         IN IF HyphenBreak(w, e + 1) THEN e + 1 ELSE e

\* The chunks wordsep_re splits word w into, from index s on.
RECURSIVE SplitWord(_, _)
SplitWord(w, s) ==
    IF s > Len(w) THEN <<>>
    ELSE LET e == MatchEnd(w, s)
         IN <<SubSeq(w, s, e)>> \o SplitWord(w, e + 1)

\* TextWrapper._split on whitespace-collapsed text: the chunks of each word,
\* with a one-space chunk between words.
RECURSIVE SplitChunks(_)
SplitChunks(ws) ==
    IF ws = <<>> THEN <<>>
    ELSE IF Len(ws) = 1 THEN SplitWord(ws[1], 1)
    ELSE SplitWord(ws[1], 1) \o <<(<<" ">>)>> \o SplitChunks(Tail(ws))

\* chunk.rfind('-', 0, space_left), as a 1-based index (0: not found).
RFindHyphen(chunk, space_left) ==
    LET hs == {i \in 1 .. space_left : i <= Len(chunk) /\ chunk[i] = "-"}
    IN IF hs = {} THEN 0 ELSE CHOOSE i \in hs : \A j \in hs : j <= i

\* TextWrapper._handle_long_word: how many characters of the too-long chunk
\* go on the current line.
LongWordEnd(chunk, space_left) ==
    LET h == RFindHyphen(chunk, space_left)
    IN IF Len(chunk) > space_left /\ h > 1
          /\ \E i \in 1 .. h - 1 : chunk[i] # "-"
       THEN h
       ELSE space_left

\* The placeholder loop of _wrap_chunks: drop chunks from the end of the line
\* until the last one is not whitespace and the placeholder fits.
RECURSIVE AddPlaceholder(_, _)
AddPlaceholder(cur, width) ==
    IF cur = <<>> THEN Placeholder
    ELSE IF Strip(cur[Len(cur)]) # <<>> /\ SumLen(cur) + Len(Placeholder) <= width
    THEN Concat(cur) \o Placeholder
    ELSE AddPlaceholder(SubSeq(cur, 1, Len(cur) - 1), width)

\* TextWrapper._wrap_chunks with max_lines = 1, joined by fill().
WrapChunks(chunks, width) ==
    LET fits == {k \in 0 .. Len(chunks) : SumLen(SubSeq(chunks, 1, k)) <= width}
        k == CHOOSE x \in fits : \A y \in fits : y <= x
        cur1 == SubSeq(chunks, 1, k)
        rest1 == SubSeq(chunks, k + 1, Len(chunks))
        long == rest1 # <<>> /\ Len(rest1[1]) > width
        end == IF long THEN LongWordEnd(rest1[1], width - SumLen(cur1)) ELSE 0
        cur2 == IF long THEN Append(cur1, SubSeq(rest1[1], 1, end)) ELSE cur1
        rest2 == IF long
                 THEN <<SubSeq(rest1[1], end + 1, Len(rest1[1]))>> \o Tail(rest1)
                 ELSE rest1
        cur3 == IF cur2 # <<>> /\ Strip(cur2[Len(cur2)]) = <<>>
                THEN SubSeq(cur2, 1, Len(cur2) - 1)
                ELSE cur2
    IN IF cur3 = <<>> THEN <<>>
       ELSE IF /\ \/ rest2 = <<>>
                  \/ Len(rest2) = 1 /\ Strip(rest2[1]) = <<>>
               /\ SumLen(cur3) <= width
       THEN Concat(cur3)
       ELSE AddPlaceholder(cur3, width)

\* Faulty variant of Shorten: the text is cut at the width, wherever that falls.
ShortenHardCut(text, width) == SubSeq(text, 1, width - 1) \o Placeholder

Shorten(text, width) == WrapChunks(SplitChunks(SplitWords(Strip(text))), width)

(***************************************************************************)
(* compose_post                                                            *)
(***************************************************************************)
MaxTotalLength == 140

CallToAction ==
    <<" ", "U+8A73", "U+3057", "U+304F", "U+306F", "U+3053", "U+3061", "U+3089",
      " ", "U+1F449", " ">>

Hashtags ==
    <<" ", "#", "A", "I", " ", "#", "A", "I", "U+30C4", "U+30FC", "U+30EB">>

\* template.format(name=..., tagline=..., short_desc=..., url=...)
Template(name, tagline, short_desc, url) ==
    <<"U+1F195">> \o Str(name) \o <<"U+FF1A">> \o Str(tagline) \o <<"U+3002">>
        \o Str(short_desc) \o CallToAction \o Str(url) \o Hashtags

\* The f-string static_text: the template without the description.
StaticText(name, tagline, url) ==
    <<"U+1F195">> \o Str(name) \o <<"U+FF1A">> \o Str(tagline) \o <<"U+3002">>
        \o CallToAction \o Str(url) \o Hashtags

AvailableForDesc(t) ==
    MaxTotalLength
        - Len(StaticText(Get(t, "name", <<>>), Get(t, "tagline", <<>>),
                         Get(t, "url", <<>>)))

\* description.strip() raises AttributeError when the row gave None.
ComposeRaises(t) == Get(t, "description", <<>>) = None

\* Faulty variant of ShortDesc: the else branch that empties the description is
\* missing.
ShortDescKeptWithoutRoom(t) ==
    LET stripped == Strip(Get(t, "description", <<>>))
        available_for_desc == AvailableForDesc(t)
    IN IF available_for_desc > 0 /\ Len(stripped) > available_for_desc
       THEN Shorten(stripped, available_for_desc)
       ELSE stripped

\* The value of short_desc when compose_post returns.
ShortDesc(t) ==
    LET stripped == Strip(Get(t, "description", <<>>))
        available_for_desc == AvailableForDesc(t)
    IN IF available_for_desc > 0
       THEN IF Len(stripped) > available_for_desc
            THEN Shorten(stripped, available_for_desc)
            ELSE stripped
       ELSE <<>>

compose_post(t) ==
    Template(Get(t, "name", <<>>), Get(t, "tagline", <<>>), ShortDesc(t),
             Get(t, "url", <<>>))

(***************************************************************************)
(* read_ai_tools (csv.DictReader) and select_next_tool                     *)
(***************************************************************************)
\* The key csv.DictReader files the surplus fields of a long row under.
RestKey == "<restkey>"

\* The dictionary DictReader makes of one row: dict(zip(fieldnames, row)),
\* then the surplus fields under restkey, or None for the missing fields.
DictRow(header, row) ==
    LET lf == Len(header)
        lr == Len(row)
        keys == {header[i] : i \in 1 .. lf} \cup (IF lf < lr THEN {RestKey} ELSE {})
        last(k) == CHOOSE i \in 1 .. lf :
                       header[i] = k /\ \A j \in 1 .. lf : header[j] = k => j <= i
    IN [k \in keys |->
           IF k = RestKey THEN SubSeq(row, lf + 1, lr)
           ELSE IF last(k) > lr THEN None
           ELSE row[last(k)]]

\* The rows DictReader yields: blank lines (rows without fields) are skipped.
RECURSIVE DictRows(_, _)
DictRows(header, rows) ==
    IF rows = <<>> THEN <<>>
    ELSE IF Head(rows) = <<>> THEN DictRows(header, Tail(rows))
    ELSE <<DictRow(header, Head(rows))>> \o DictRows(header, Tail(rows))

\* The loop of read_ai_tools: rows whose name is missing or empty are skipped.
RECURSIVE KeepNamed(_)
KeepNamed(ds) ==
    IF ds = <<>> THEN <<>>
    ELSE IF ~Truthy(Get(Head(ds), "name", None)) THEN KeepNamed(Tail(ds))
    ELSE <<Head(ds)>> \o KeepNamed(Tail(ds))

LoadedTools(f) == KeepNamed(DictRows(f.header, f.rows))

\* Faulty variant of ReadError: the check for an empty list is missing.
ReadErrorNoEmptyCheck(f) == IF ~f.exists THEN "FileNotFoundError" ELSE "none"

\* The exception read_ai_tools raises on file f, or "none".
ReadError(f) ==
    IF ~f.exists THEN "FileNotFoundError"
    ELSE IF LoadedTools(f) = <<>> THEN "ValueError"
    ELSE "none"

\* Faulty variant of select_next_tool: the last item instead of the first.
SelectLastTool(ts) == ts[Len(ts)]

select_next_tool(ts) == ts[1]

(***************************************************************************)
(* The environment of one run.                                             *)
(***************************************************************************)
CredNames ==
    {"TWITTER_API_KEY", "TWITTER_API_SECRET", "TWITTER_ACCESS_TOKEN",
     "TWITTER_ACCESS_SECRET"}

\* os.getenv: unset, set to the empty string, or set.
CredVals == {None, <<>>, <<"k">>}

\* Faulty variant of AllCredentials: any() in the place of all().
AnyCredential(env) == \E n \in CredNames : Truthy(env[n])

\* all([api_key, api_secret, access_token, access_secret])
AllCredentials(env) == \A n \in CredNames : Truthy(env[n])

ImagePath == <<"p", "n", "g">>

\* An HTTP exchange: the request raised (no response), or a response with a
\* status code and a body.
Statuses == {200, 302, 400, 503}

UploadBodies == {"not_json", "json_list", "json_object", "json_media_id"}

TweetBodies == {"not_json", "json_object"}

Exchanges(bodies) ==
    [failed : {FALSE}, status_code : Statuses, body : bodies]
        \cup [failed : {TRUE}, status_code : {0}, body : {"none"}]

\* Faulty variant of UploadError: raise_for_status() is not called.
UploadErrorNoStatusCheck(r) ==
    IF r.failed THEN "ConnectionError"
    ELSE IF r.body = "not_json" THEN "JSONDecodeError"
    ELSE IF r.body = "json_list" THEN "AttributeError"
    ELSE "none"

\* What upload_resp.raise_for_status() and upload_resp.json().get(...) raise
\* on response r, or "none".
UploadError(r) ==
    IF r.failed THEN "ConnectionError"
    ELSE IF r.status_code >= 400 /\ r.status_code < 600 THEN "HTTPError"
    ELSE IF r.body = "not_json" THEN "JSONDecodeError"
    ELSE IF r.body = "json_list" THEN "AttributeError"
    ELSE "none"

\* upload_resp.json().get('media_id_string')
MediaIdOf(r) == IF r.body = "json_media_id" THEN <<"7">> ELSE None

Line(kind, text) == [kind |-> kind, text |-> text]

Request(endpoint, text, media) == [endpoint |-> endpoint, text |-> text, media |-> media]

(***************************************************************************)
(* The input tables of the model.                                          *)
(***************************************************************************)
Headers ==
    {<<"name", "tagline", "description", "url">>,
     <<"url", "description", "name", "tagline">>,
     <<"tagline", "name", "url">>}

NameVals == {<<>>, <<" ">>, <<"F">>}

RowRecords ==
    [name : NameVals, tagline : {<<"t">>}, description : {<<"d">>}, url : {<<"u">>}]

\* The fields of record r in the column order of the header.
Layout(header, r) == [i \in 1 .. Len(header) |-> r[header[i]]]

\* The rows a file with this header can hold: a full row, a row cut after its
\* first field, a row with a surplus field, and a blank line.
RowsOf(header) ==
    {<<>>}
        \cup {Layout(header, r) : r \in RowRecords}
        \cup {SubSeq(Layout(header, r), 1, 1) : r \in RowRecords}
        \cup {Append(Layout(header, r), <<"x">>) : r \in RowRecords}

SeqsUpTo(S, n) == UNION {[1 .. k -> S] : k \in 0 .. n}

Files ==
    UNION {{[exists |-> TRUE, header |-> h, rows |-> rs] :
               rs \in SeqsUpTo(RowsOf(h), MaxRows)} : h \in Headers}

NoFile == [exists |-> FALSE, header |-> <<>>, rows |-> <<>>]

\* The records compose_post is applied to on its own: names of no character
\* and names that leave the description from MaxAvail characters down to
\* none, with and without a tagline and a url, and every description of at
\* most MaxDescLen characters over a letter, the space and the hyphen.
Repeat(c, n) == [i \in 1 .. n |-> c]

FreeLength == MaxTotalLength - Len(StaticText(<<>>, <<>>, <<>>))

NameLengths == {0} \cup ((FreeLength - MaxAvail) .. (FreeLength + MaxOver))

DescChars == {"a", " ", "-"}

ComposeRecords ==
    [name : {Repeat("n", k) : k \in NameLengths},
     tagline : {<<>>, <<"t">>},
     description : SeqsUpTo(DescChars, MaxDescLen),
     url : {<<>>, <<"u">>}]

(***************************************************************************)
(* One run of main().                                                      *)
(***************************************************************************)
NoTool == [k \in {} |-> <<>>]

NoCreds == [n \in CredNames |-> None]

\* No response received (yet).
NoResponse == [failed |-> FALSE, status_code |-> 0, body |-> "none"]

Init ==
    /\ pc = "read"
    /\ csv \in Files \cup {NoFile}
    /\ tools = <<>>
    /\ tool = NoTool
    /\ status = <<>>
    /\ imageWritten = FALSE
    /\ creds = NoCreds
    /\ upload_resp = NoResponse
    /\ media_id = None
    /\ resp = NoResponse
    /\ requests = <<>>
    /\ stdout = <<>>
    /\ exc = "none"
    /\ trace = <<>>

\* An uncaught exception ends the run.
Raise(e) == pc' = "crashed" /\ exc' = e

\* tools = read_ai_tools(CSV_FILENAME)
ReadAiTools ==
    /\ pc = "read"
    /\ trace' = Append(trace, "read")
    /\ IF ReadError(csv) # "none"
       THEN Raise(ReadError(csv)) /\ UNCHANGED tools
       ELSE pc' = "select" /\ tools' = LoadedTools(csv) /\ UNCHANGED exc
    /\ UNCHANGED <<csv, tool, status, imageWritten, creds, upload_resp,
                   media_id, resp, requests, stdout>>

\* tool = select_next_tool(tools)
SelectNextTool ==
    /\ pc = "select"
    /\ trace' = Append(trace, "select")
    /\ IF tools = <<>>
       THEN Raise("IndexError") /\ UNCHANGED tool
       ELSE pc' = "compose" /\ tool' = select_next_tool(tools) /\ UNCHANGED exc
    /\ UNCHANGED <<csv, tools, status, imageWritten, creds, upload_resp,
                   media_id, resp, requests, stdout>>

\* status = compose_post(tool)
ComposePost ==
    /\ pc = "compose"
    /\ trace' = Append(trace, "compose")
    /\ IF ComposeRaises(tool)
       THEN Raise("AttributeError") /\ UNCHANGED status
       ELSE pc' = "render" /\ status' = compose_post(tool) /\ UNCHANGED exc
    /\ UNCHANGED <<csv, tools, tool, imageWritten, creds, upload_resp,
                   media_id, resp, requests, stdout>>

\* generate_image(tool, image_filename): the card is saved, or drawing or
\* saving it raises.
GenerateImage ==
    /\ pc = "render"
    /\ trace' = Append(trace, "render")
    /\ \E saved \in BOOLEAN :
          IF saved
          THEN pc' = "publish" /\ imageWritten' = TRUE /\ UNCHANGED exc
          ELSE Raise("OSError") /\ UNCHANGED imageWritten
    /\ UNCHANGED <<csv, tools, tool, status, creds, upload_resp,
                   media_id, resp, requests, stdout>>

\* post_to_x, up to the OAuth1 object: the four credentials are read from the
\* environment; without all four the post is printed instead.
CredentialCheck ==
    /\ pc = "publish"
    /\ trace' = Append(trace, "publish")
    /\ \E env \in [CredNames -> CredVals] :
          /\ creds' = env
          /\ IF ~AllCredentials(env)
             THEN /\ stdout' = stdout \o
                        <<Line("missing_credentials", <<>>),
                          Line("status_text", status),
                          Line("image_saved", ImagePath)>>
                  /\ pc' = "done"
             ELSE pc' = "upload" /\ UNCHANGED stdout
    /\ UNCHANGED <<csv, tools, tool, status, imageWritten, upload_resp, media_id,
                   resp, requests, exc>>

\* Faulty variant of MediaUpload: an upload answered with an error status is sent
\* again.
MediaUploadRetry ==
    /\ pc = "upload"
    /\ \E r \in Exchanges(UploadBodies) :
          /\ requests' = Append(requests, Request("media/upload", <<>>, ImagePath))
          /\ upload_resp' = r
          /\ IF ~r.failed /\ r.status_code >= 400
             THEN UNCHANGED <<pc, exc, media_id>>
             ELSE IF UploadError(r) # "none"
             THEN Raise(UploadError(r)) /\ UNCHANGED media_id
             ELSE pc' = "create" /\ media_id' = MediaIdOf(r) /\ UNCHANGED exc
    /\ UNCHANGED <<csv, tools, tool, status, imageWritten, creds, resp, stdout, trace>>

\* post_to_x, "Upload media": one POST of the image file.
MediaUpload ==
    /\ pc = "upload"
    /\ IF ~imageWritten
       THEN Raise("FileNotFoundError") /\ UNCHANGED <<requests, upload_resp, media_id>>
       ELSE \E r \in Exchanges(UploadBodies) :
               /\ requests' = Append(requests, Request("media/upload", <<>>, ImagePath))
               /\ upload_resp' = r
               /\ IF UploadError(r) # "none"
                  THEN Raise(UploadError(r)) /\ UNCHANGED media_id
                  ELSE pc' = "create" /\ media_id' = MediaIdOf(r) /\ UNCHANGED exc
    /\ UNCHANGED <<csv, tools, tool, status, imageWritten, creds, resp, stdout, trace>>

\* Faulty variant of PostCreate: nothing is printed about a post that failed.
PostCreateSilentFailure ==
    /\ pc = "create"
    /\ \E r \in Exchanges(TweetBodies) :
          /\ requests' = Append(requests, Request("tweets", status, media_id))
          /\ resp' = r
          /\ IF r.failed
             THEN Raise("ConnectionError") /\ UNCHANGED stdout
             ELSE IF r.status_code >= 400
             THEN pc' = "done" /\ UNCHANGED <<stdout, exc>>
             ELSE IF r.body = "not_json"
             THEN Raise("JSONDecodeError") /\ UNCHANGED stdout
             ELSE /\ stdout' = Append(stdout, Line("posted", <<r.body>>))
                  /\ pc' = "done"
                  /\ UNCHANGED exc
    /\ UNCHANGED <<csv, tools, tool, status, imageWritten, creds, upload_resp, media_id,
                   trace>>

\* post_to_x, "Create tweet": one POST of the text and the media id, and the
\* line printed about its outcome.
PostCreate ==
    /\ pc = "create"
    /\ \E r \in Exchanges(TweetBodies) :
          /\ requests' = Append(requests, Request("tweets", status, media_id))
          /\ resp' = r
          /\ IF r.failed
             THEN Raise("ConnectionError") /\ UNCHANGED stdout
             ELSE IF r.status_code >= 400
             THEN /\ stdout' = Append(stdout, Line("failed_to_post", <<r.body>>))
                  /\ pc' = "done"
                  /\ UNCHANGED exc
             ELSE IF r.body = "not_json"
             THEN Raise("JSONDecodeError") /\ UNCHANGED stdout
             ELSE /\ stdout' = Append(stdout, Line("posted", <<r.body>>))
                  /\ pc' = "done"
                  /\ UNCHANGED exc
    /\ UNCHANGED <<csv, tools, tool, status, imageWritten, creds, upload_resp, media_id,
                   trace>>

Next ==
    \/ ReadAiTools
    \/ SelectNextTool
    \/ ComposePost
    \/ GenerateImage
    \/ CredentialCheck
    \/ MediaUpload
    \/ PostCreate

Spec == Init /\ [][Next]_vars

(***************************************************************************)
(* compose_post on its own, applied to every record of ComposeRecords.     *)
(***************************************************************************)
InitCompose ==
    /\ pc = "compose"
    /\ csv = NoFile
    /\ tool \in ComposeRecords
    /\ tools = <<tool>>
    /\ status = <<>>
    /\ imageWritten = FALSE
    /\ creds = NoCreds
    /\ upload_resp = NoResponse
    /\ media_id = None
    /\ resp = NoResponse
    /\ requests = <<>>
    /\ stdout = <<>>
    /\ exc = "none"
    /\ trace = <<>>

SpecCompose == InitCompose /\ [][ComposePost]_vars

(***************************************************************************)
(* Vocabulary of the properties.                                           *)
(***************************************************************************)
HasRun(step) == \E i \in DOMAIN trace : trace[i] = step

Ended == pc \in {"done", "crashed"}

\* compose_post, applied on its own, has returned the message held in status.
ComposedAlone == pc = "render" /\ trace = <<"compose">>

\* Length of the fixed parts of the message: template glyphs, name, tagline,
\* url, call-to-action and hashtags.
FixedLength ==
    3 + Len(tool.name) + Len(tool.tagline) + Len(CallToAction) + Len(tool.url)
        + Len(Hashtags)

\* The text standing in the message where the template has its description
\* placeholder.
Substituted ==
    SubSeq(status, 4 + Len(tool.name) + Len(tool.tagline),
           Len(status) - Len(CallToAction) - Len(tool.url) - Len(Hashtags))

\* The fixed text: the message with nothing in the place of the description.
FixedText ==
    <<"U+1F195">> \o tool.name \o <<"U+FF1A">> \o tool.tagline \o <<"U+3002">>
        \o CallToAction \o tool.url \o Hashtags

Collapse(s) == JoinSpace(SplitWords(s))

IsPrefix(a, b) == Len(a) <= Len(b) /\ a = SubSeq(b, 1, Len(a))

Endpoints == [i \in DOMAIN requests |-> requests[i].endpoint]

HttpError(r) == ~r.failed /\ r.status_code >= 400

\* The field of a raw row that stands under the name column, or None.
NameField(header, row) ==
    IF \E i \in 1 .. Len(row) : i <= Len(header) /\ header[i] = "name"
    THEN row[CHOOSE i \in 1 .. Len(row) : i <= Len(header) /\ header[i] = "name"]
    ELSE None

\* The indices of the rows of the file whose name field is, verbatim,
\* a non-empty string.
NamedRows ==
    {i \in DOMAIN csv.rows : NameField(csv.header, csv.rows[i]) \notin {None, <<>>}}

\* The k-th smallest index of NamedRows.
NthNamed(k) == CHOOSE i \in NamedRows : Cardinality({j \in NamedRows : j <= i}) = k

\* The file with its columns reordered by the permutation p of the column
\* indices.
PermuteColumns(f, p) ==
    [exists |-> f.exists,
     header |-> [i \in DOMAIN f.header |-> f.header[p[i]]],
     rows |-> [r \in DOMAIN f.rows |-> [i \in DOMAIN f.header |-> f.rows[r][p[i]]]]]

Rectangular(f) == \A r \in DOMAIN f.rows : Len(f.rows[r]) = Len(f.header)

\* The file with the whitespace around every field removed.
StripFields(f) ==
    [exists |-> f.exists,
     header |-> f.header,
     rows |-> [r \in DOMAIN f.rows |->
                  [i \in DOMAIN f.rows[r] |-> Strip(f.rows[r][i])]]]

StripRecord(d) == [k \in DOMAIN d |-> IF d[k] = None THEN None ELSE Strip(d[k])]

Selected == HasRun("select") /\ ~(pc = "crashed" /\ Len(trace) = 2)

(***************************************************************************)
(* C1                                                                      *)
(***************************************************************************)
\* C1: for every record of strings, the message compose_post returns has at
\* most 140 characters.
C1_AtMost140 == ComposedAlone => Len(status) <= MaxTotalLength

(***************************************************************************)
(* C8                                                                      *)
(***************************************************************************)
\* C8: whenever the fixed parts of the message take 140 characters or more,
\* the boundary of exactly 140 included, the description placeholder is
\* filled with the empty string: the message is the fixed text.
C8_NoRoomNoDescription ==
    (ComposedAlone /\ FixedLength >= MaxTotalLength)
        => Substituted = <<>> /\ status = FixedText

\* A record with a description whose fixed parts take exactly 140 characters.
C8_Witness ==
    /\ ComposedAlone
    /\ FixedLength = MaxTotalLength
    /\ Strip(tool.description) # <<>>

(***************************************************************************)
(* C9                                                                      *)
(***************************************************************************)
\* C9, as claimed: with room for the description, a trimmed description that
\* fits is substituted unchanged; a longer one is replaced by a text of at
\* most `available` characters that ends with exactly one ellipsis, before
\* which stand whole words of the description.
C9_Original ==
    (ComposedAlone /\ FixedLength < MaxTotalLength) =>
        LET available == MaxTotalLength - FixedLength
            d == Strip(tool.description)
            body == SubSeq(Substituted, 1, Len(Substituted) - 1)
        IN IF Len(d) <= available
           THEN Substituted = d
           ELSE /\ Len(Substituted) <= available
                /\ Substituted # <<>>
                /\ Substituted[Len(Substituted)] = "U+2026"
                /\ \A i \in DOMAIN body : body[i] # "U+2026"
                /\ IsPrefix(SplitWords(body), SplitWords(d))

\* C9, amended: with room for the description, a trimmed description that
\* fits is substituted unchanged.  A longer one has its runs of whitespace
\* collapsed to single spaces; if it then fits it is substituted without an
\* ellipsis, and otherwise the substituted text has at most `available`
\* characters and is a prefix of the collapsed text followed by one appended
\* ellipsis, the prefix not ending in whitespace and ending at the start of
\* the text, at the end of a word, or directly before or after a hyphen.
C9_Truncation ==
    (ComposedAlone /\ FixedLength < MaxTotalLength) =>
        LET available == MaxTotalLength - FixedLength
            d == Strip(tool.description)
            c == Collapse(d)
            n == Len(Substituted) - 1
        IN IF Len(d) <= available THEN Substituted = d
           ELSE IF Len(c) <= available THEN Substituted = c
           ELSE /\ Len(Substituted) <= available
                /\ n >= 0
                /\ n < Len(c)
                /\ Substituted = SubSeq(c, 1, n) \o <<"U+2026">>
                /\ \/ n = 0
                   \/ c[n] # " " /\ (c[n + 1] = " " \/ c[n] = "-" \/ c[n + 1] = "-")

\* A description cut after at least one kept character.
C9_Witness ==
    /\ ComposedAlone
    /\ FixedLength < MaxTotalLength
    /\ Len(Collapse(tool.description)) > MaxTotalLength - FixedLength
    /\ Len(Substituted) >= 2
    /\ Substituted[1] = "a"
    /\ Substituted[Len(Substituted)] = "U+2026"

(***************************************************************************)
(* C6                                                                      *)
(***************************************************************************)
\* C6, as claimed: the selected record is that of the first row in file
\* order with a non-empty name, the loaded rows keep file order, and the
\* result depends neither on the column order nor on whitespace around the
\* fields of the table.
C6_Original ==
    (Selected /\ ReadError(StripFields(csv)) = "none") =>
        /\ NamedRows # {}
        /\ tool = DictRow(csv.header, csv.rows[NthNamed(1)])
        /\ StripRecord(tool) = select_next_tool(LoadedTools(StripFields(csv)))

\* C6, amended: the selected record is that of the first row in file order
\* whose name field, taken verbatim, is a non-empty string; rows without one
\* are skipped, the loaded rows keep file order, and the result does not
\* depend on the column order.  Whitespace is not trimmed: a name of
\* whitespace alone counts as non-empty.
C6_FirstNamedRow ==
    Selected =>
        /\ NamedRows # {}
        /\ tool = DictRow(csv.header, csv.rows[NthNamed(1)])
        /\ Len(tools) = Cardinality(NamedRows)
        /\ \A k \in DOMAIN tools : tools[k] = DictRow(csv.header, csv.rows[NthNamed(k)])
        /\ Rectangular(csv) =>
              \A p \in Permutations(DOMAIN csv.header) :
                  /\ ReadError(PermuteColumns(csv, p)) = "none"
                  /\ select_next_tool(LoadedTools(PermuteColumns(csv, p))) = tool

\* The first row of the file has an empty name and is skipped; the second
\* row is selected.
C6_Witness ==
    /\ pc = "compose"
    /\ Len(csv.rows) >= 2
    /\ csv.rows[1] # <<>>
    /\ 1 \notin NamedRows
    /\ 2 \in NamedRows
    /\ Rectangular(csv)

(***************************************************************************)
(* C7                                                                      *)
(***************************************************************************)
\* C7: a missing input file ends the run with FileNotFoundError, a file whose
\* every row lacks a name value with ValueError, in both cases before an
\* image is written and before any request is sent; read_ai_tools never
\* returns an empty collection.
C7_LoadFailureIsFatal ==
    HasRun("read") =>
        /\ ~csv.exists => pc = "crashed" /\ exc = "FileNotFoundError"
        /\ (csv.exists /\ NamedRows = {}) => pc = "crashed" /\ exc = "ValueError"
        /\ (~csv.exists \/ NamedRows = {}) =>
              /\ trace = <<"read">>
              /\ ~imageWritten
              /\ requests = <<>>
        /\ (csv.exists /\ NamedRows # {}) => tools # <<>>

\* A file with rows, none of which has a name: the run has ended on ValueError.
C7_Witness ==
    /\ pc = "crashed"
    /\ exc = "ValueError"
    /\ csv.exists
    /\ \E i \in DOMAIN csv.rows : csv.rows[i] # <<>>

(***************************************************************************)
(* C5                                                                      *)
(***************************************************************************)
\* C5: when any of the four credentials is unset or empty, post_to_x sends no
\* request, prints the message text and the image path, and returns normally.
C5_LocalFallback ==
    (HasRun("publish") /\ \E n \in CredNames : creds[n] \in {None, <<>>}) =>
        /\ requests = <<>>
        /\ pc = "done"
        /\ exc = "none"
        /\ \E i \in DOMAIN stdout : stdout[i] = Line("status_text", status)
        /\ \E i \in DOMAIN stdout : stdout[i] = Line("image_saved", ImagePath)

\* post_to_x has returned with one credential set to the empty string and the
\* other three set.
C5_Witness ==
    /\ pc = "done"
    /\ HasRun("publish")
    /\ creds["TWITTER_ACCESS_SECRET"] = <<>>
    /\ \A n \in CredNames \ {"TWITTER_ACCESS_SECRET"} : creds[n] = <<"k">>

(***************************************************************************)
(* C2                                                                      *)
(***************************************************************************)
\* C2: the post-creation request is never sent without a valid media
\* reference: after a media upload that failed (an error status, or a
\* response without a media identifier string) no post-creation request is
\* sent.
C2_NoPostWithoutMedia ==
    \A i \in DOMAIN requests :
        requests[i].endpoint = "tweets" =>
            /\ requests[i].media # None
            /\ UploadError(upload_resp) = "none"

(***************************************************************************)
(* C3                                                                      *)
(***************************************************************************)
\* C3, as claimed: an HTTP error status from either network call is caught
\* and printed, and main completes; only failures of read, select, compose
\* and render end the run with an exception.
C3_Original ==
    (HttpError(upload_resp) \/ HttpError(resp)) => pc # "crashed" /\ exc = "none"

\* C3, amended: an HTTP error status from the post-creation call is printed
\* as a diagnostic and main completes normally; an HTTP error status from the
\* media upload is not caught: it raises HTTPError, which ends the run
\* abnormally before the post-creation step, as the failures of read,
\* select, compose and render do.
C3_OnlyPostStatusIsSoft ==
    /\ HttpError(resp) =>
          /\ pc = "done"
          /\ exc = "none"
          /\ stdout # <<>>
          /\ stdout[Len(stdout)].kind = "failed_to_post"
    /\ HttpError(upload_resp) =>
          /\ pc = "crashed"
          /\ exc = "HTTPError"
          /\ Endpoints = <<"media/upload">>
          /\ stdout = <<>>
    /\ pc = "crashed" <=> exc # "none"
    /\ (pc = "crashed" /\ ~HasRun("publish")) =>
          exc \in {"FileNotFoundError", "ValueError", "AttributeError", "OSError"}

\* The media upload was answered with an error status.
C3_Witness == HttpError(upload_resp) /\ pc = "crashed"

(***************************************************************************)
(* C4                                                                      *)
(***************************************************************************)
\* C4, as claimed: a run ends either with exactly one post-creation attempt
\* whose outcome was printed, or without any request sent.
C4_Original ==
    Ended =>
        \/ requests = <<>>
        \/ /\ Cardinality({i \in DOMAIN requests : requests[i].endpoint = "tweets"}) = 1
           /\ stdout # <<>>
           /\ stdout[Len(stdout)].kind \in {"posted", "failed_to_post"}

\* C4, amended: a run ends in one of three ways: no request was sent; only
\* the media upload request was sent and it raised, so that the run ended
\* abnormally with no post-creation attempt and nothing printed; or the
\* post-creation request was sent exactly once, and its outcome was printed
\* unless that request raised or its success response was not JSON.
C4_RunOutcomes ==
    Ended =>
        \/ requests = <<>>
        \/ /\ Endpoints = <<"media/upload">>
           /\ pc = "crashed"
           /\ UploadError(upload_resp) # "none"
           /\ stdout = <<>>
        \/ /\ Endpoints = <<"media/upload", "tweets">>
           /\ \/ /\ pc = "done"
                 /\ stdout # <<>>
                 /\ stdout[Len(stdout)].kind \in {"posted", "failed_to_post"}
              \/ /\ pc = "crashed"
                 /\ resp.failed \/ (resp.status_code < 400 /\ resp.body = "not_json")

\* A run that ended normally after one post-creation request that succeeded.
C4_Witness ==
    /\ pc = "done"
    /\ Endpoints = <<"media/upload", "tweets">>
    /\ stdout[Len(stdout)].kind = "posted"

(***************************************************************************)
(* C10                                                                     *)
(***************************************************************************)
\* C10: the steps of a run occur in the order read, select, compose, render,
\* publish, each at most once; the image is written before the media upload
\* request, which precedes the post-creation request, and neither request is
\* sent a second time.
C10_StrictSequence ==
    /\ IsPrefix(trace, <<"read", "select", "compose", "render", "publish">>)
    /\ IsPrefix(Endpoints, <<"media/upload", "tweets">>)
    /\ requests # <<>> => imageWritten /\ HasRun("publish")
    /\ imageWritten => HasRun("render")
    /\ pc = "read" <=> trace = <<>>

\* Both requests have been sent and the run has ended.
C10_Witness ==
    /\ Ended
    /\ Len(requests) = 2
    /\ Len(trace) = 5

====
